---- MODULE Spec2Model ----
(***************************************************************************)
(* The MedAI browser client (frontend/script.js): the module-level session *)
(* state (currentUser, chatHistory), localStorage, the parts of the DOM    *)
(* the handlers read and write, and every asynchronous handler as a        *)
(* sequence of atomic runs separated by its awaits.  One invocation of a   *)
(* handler owns one slot of proc; a slot is never reused, so proc[p] is    *)
(* the p-th invocation: its locals, the request it waits on (req) and the  *)
(* addMessage / showToast calls it has made (out).  The locals go when the *)
(* invocation returns; out stays.  The backend is an open environment:     *)
(* each awaited fetch is answered by any reply of the endpoint's reply set.*)
(***************************************************************************)
EXTENDS Integers, Sequences, FiniteSets, TLC

\* ------------------------------------------------------------- bounds
MaxStarts == 2      \* handler invocations in one run (and so in flight at once)
MaxPosts == 3       \* the POST /users of one createUser call chain are counted up to this
MaxId == 2          \* user ids the backend or Math.random hands out: 1..MaxId

\* ------------------------------------------------- program constants
HistoryCap == 50
MaxFileBytes == 10485760

Procs == 1..MaxStarts

\* ---------------------------------------------------------------- text
\* A text is a sequence of characters; " " is the only whitespace used.
Space == " "

RECURSIVE TrimStart(_)
TrimStart(s) == IF s # <<>> /\ Head(s) = Space THEN TrimStart(Tail(s)) ELSE s

RECURSIVE TrimEnd(_)
TrimEnd(s) ==
    IF s # <<>> /\ s[Len(s)] = Space THEN TrimEnd(SubSeq(s, 1, Len(s) - 1)) ELSE s

\* a sendMessage that sends the box as it is
trim_None(s) == s

trim(s) == TrimEnd(TrimStart(s))

\* what the user may have in the message box when a send is triggered
Inputs == { <<>>, <<" ">>, <<" ", "a", " ">> }
\* the data-prompt of a quick-action button
QuickPrompt == <<"q">>

Apology == <<"Sorry, I encountered an error. Please try again.">>
Unexpected == <<"I received your message but got an unexpected response.">>

\* ------------------------------------------------------------ identity
NoUser == [id |-> 0, name |-> "", email |-> ""]
GuestEmail == "guest@example.com"
\* `guest-${Date.now()}-retry@example.com`: the clock has moved on between
\* one retry and the next, so successive retries carry different emails;
\* two names are enough to tell a retry's email from the one before it.
RetryEmails == << "guest-<now>-retry@example.com", "guest-<now'>-retry@example.com" >>
RetryEmail(before) == IF before = RetryEmails[1] THEN RetryEmails[2] ELSE RetryEmails[1]
MockEmail == "guest-<now>@example.com"
User(i, n, e) == [id |-> i, name |-> n, email |-> e]

\* ------------------------------------------------------------- storage
\* A localStorage item is <<>> when the key is absent (getItem gives null)
\* and <<v>> when it holds the serialisation of v.
NoItem == <<>>
stringify(v) == <<v>>
parse(item) == item[1]

\* --------------------------------------------------------------- files
NoFile == [type |-> "", size |-> 0]
Files == [type : {"application/pdf", "image/png"}, size : {MaxFileBytes, MaxFileBytes + 1}]

\* ------------------------------------------------------------- numbers
\* A number is held as a count of tenths, so that 0.5 and 7.5 are integers
\* here; the texts entered below have at most one decimal.  NaN is its own
\* value.
NaN == [nan |-> TRUE, tenths |-> 0]
Num(t) == [nan |-> FALSE, tenths |-> t]
Digit == [c \in {"0", "1", "2", "3", "4", "5", "6", "7", "8", "9"} |->
            CASE c = "0" -> 0 [] c = "1" -> 1 [] c = "2" -> 2 [] c = "3" -> 3 [] c = "4" -> 4
              [] c = "5" -> 5 [] c = "6" -> 6 [] c = "7" -> 7 [] c = "8" -> 8 [] OTHER -> 9]

\* the longest prefix of t made of digits
RECURSIVE DigitsPrefix(_)
DigitsPrefix(t) ==
    IF t # <<>> /\ Head(t) \in DOMAIN Digit THEN <<Head(t)>> \o DigitsPrefix(Tail(t)) ELSE <<>>

RECURSIVE ValueOf(_)
ValueOf(d) == IF d = <<>> THEN 0 ELSE 10 * ValueOf(SubSeq(d, 1, Len(d) - 1)) + Digit[d[Len(d)]]

Unsigned(t) == IF t # <<>> /\ Head(t) \in {"+", "-"} THEN Tail(t) ELSE t
SignOf(t) == IF t # <<>> /\ Head(t) = "-" THEN -1 ELSE 1

\* parseInt(string): leading whitespace and a sign are skipped, the digits
\* that follow are read, and whatever comes after them is ignored
parseInt(str) ==
    LET t == TrimStart(str)
        d == DigitsPrefix(Unsigned(t))
    IN  IF d = <<>> THEN NaN ELSE Num(SignOf(t) * 10 * ValueOf(d))

\* parseFloat(string): as parseInt, with a decimal part
parseFloat(str) ==
    LET t == TrimStart(str)
        u == Unsigned(t)
        d == DigitsPrefix(u)
        rest == SubSeq(u, Len(d) + 1, Len(u))
        f == IF rest # <<>> /\ Head(rest) = "." THEN DigitsPrefix(Tail(rest)) ELSE <<>>
    IN  IF d = <<>> /\ f = <<>> THEN NaN
        ELSE Num(SignOf(t) * (10 * ValueOf(d) + (IF f = <<>> THEN 0 ELSE Digit[Head(f)])))

\* x || d for a number x: NaN and 0 are falsy
OrNumber(x, d) == IF x.nan \/ x.tenths = 0 THEN d ELSE x.tenths

\* --------------------------------------------------- the prediction form
\* formData.get(name) is null when the form has no such field, else the
\* field's text
NoEntry == [present |-> FALSE, text |-> <<>>]
Entry(text) == [present |-> TRUE, text |-> text]
\* String(value), as parseInt and parseFloat apply it to their argument
String(e) == IF e.present THEN e.text ELSE <<"n", "u", "l", "l">>
\* e || d for a form entry e: null and "" are falsy
OrText(e, d) == IF ~e.present \/ e.text = <<>> THEN d ELSE e.text

FormFields == {"age", "gender", "lifestyle", "symptoms", "bmi", "glucose", "blood_pressure",
               "diabetes_pedigree", "pregnancies", "skin_thickness", "insulin"}
\* what the user may have put into a field of the form
Entries == { NoEntry, Entry(<<"x">>), Entry(<<"0">>), Entry(<<"7", ".", "5">>) }
\* the forms submitted: every field holds the same entry
Forms == { [f \in FormFields |-> e] : e \in Entries }
NoForm == [f \in FormFields |-> NoEntry]

\* predictionData, without user_id (which the request carries)
predictionData(formData) ==
    [age |-> OrNumber(parseInt(String(formData["age"])), 300),
     gender |-> OrText(formData["gender"], <<"unknown">>),
     lifestyle |-> OrText(formData["lifestyle"], <<"Not specified">>),
     symptoms |-> OrText(formData["symptoms"], <<"No symptoms reported">>),
     bmi |-> OrNumber(parseFloat(String(formData["bmi"])), 250),
     glucose |-> OrNumber(parseInt(String(formData["glucose"])), 1000),
     blood_pressure |-> OrNumber(parseInt(String(formData["blood_pressure"])), 1200),
     diabetes_pedigree |-> OrNumber(parseFloat(String(formData["diabetes_pedigree"])), 5),
     pregnancies |-> OrNumber(parseInt(String(formData["pregnancies"])), 0),
     skin_thickness |-> OrNumber(parseFloat(String(formData["skin_thickness"])), 200),
     insulin |-> OrNumber(parseInt(String(formData["insulin"])), 800)]

\* the body of the request to /predict: the values of predictionData in the
\* order of its keys
PredictionKeys == << "age", "gender", "lifestyle", "symptoms", "bmi", "glucose",
                     "blood_pressure", "diabetes_pedigree", "pregnancies", "skin_thickness",
                     "insulin" >>
predictionBody(data) == [k \in 1..Len(PredictionKeys) |-> data[PredictionKeys[k]]]
\* the body each form gives
PredictionBodies == [formData \in Forms |-> predictionBody(predictionData(formData))]

\* ------------------------------------------------------------- replies
\* What an awaited fetch gives: a rejection, or a response with a status
\* and a body (which may fail to parse as JSON).
NoBody == [readable |-> FALSE, detail |-> "", user |-> NoUser, answer |-> <<>>,
           response |-> <<>>, list |-> <<>>, pdf |-> FALSE]
Rejected == [rejected |-> TRUE, status |-> 0, body |-> NoBody]
Http(st, b) == [rejected |-> FALSE, status |-> st, body |-> b]
Json == [NoBody EXCEPT !.readable = TRUE]
ok(r) == r.status >= 200 /\ r.status <= 299

Failures == { Rejected, Http(500, [Json EXCEPT !.detail = "Internal Server Error"]) }

Duplicate == Http(400, [Json EXCEPT !.detail = "Email already registered"])

UsersReplies(email) ==
    Failures
    \cup { Duplicate, Http(502, NoBody), Http(200, NoBody) }
    \cup { Http(200, [Json EXCEPT !.user = User(i, "Guest User", email)]) : i \in 1..MaxId }

ChatReplies ==
    Failures
    \cup { Http(200, NoBody) }
    \cup { Http(200, [Json EXCEPT !.answer = a, !.response = b]) :
             a \in { <<>>, <<"A">> }, b \in { <<>>, <<"R">> } }

PredictReplies == Failures \cup { Http(200, NoBody), Http(200, Json) }

UploadReplies == Failures \cup { Http(200, NoBody), Http(200, Json) }

HistoryReplies ==
    Failures
    \cup { Http(200, NoBody), Http(200, Json), Http(200, [Json EXCEPT !.list = <<2, 1>>]) }

GenerateReplies ==
    Failures
    \cup { Http(200, NoBody), Http(200, Json), Http(200, [NoBody EXCEPT !.pdf = TRUE]) }

\* ------------------------------------------------------------ requests
Request(path, uid, body) == [path |-> path, user_id |-> uid, body |-> body]
NoRequest == Request("", 0, <<>>)

\* --------------------------------------------------------------- state
VARIABLES
    currentUser,    \* script.js:2
    chatHistory,    \* script.js:3
    lsUser,         \* localStorage item 'medai_user'
    lsHistory,      \* localStorage item 'medai_chat_history'
    messageInput,   \* value of #messageInput
    file,           \* fileInput.files[0], NoFile when the list is empty
    transcript,     \* the message elements of #chatContainer, oldest first
    welcome,        \* #chatContainer shows the welcome screen (with its quick buttons)
    sendDisabled,   \* sendBtn.disabled
    loading,        \* #loadingModal is displayed
    proc,           \* the handler invocations
    started,        \* how many invocations have been made
    clock,          \* instants handed out to chat-history timestamps
    step,           \* build.sh: the command the script is at
    artifact,       \* build.sh: what is at trained_models/diabetes_model.joblib
    console,        \* build.sh: the lines written to the terminal
    status          \* build.sh: $?, the exit status of the last command

pageVars == << currentUser, chatHistory, lsUser, lsHistory, messageInput, file, transcript,
               welcome, sendDisabled, loading, proc, started, clock >>
buildVars == << step, artifact, console, status >>
vars == << pageVars, buildVars >>

\* op: the handler; pc: "idle" (slot unused), the await the invocation is
\* suspended at, "done" (returned) or "gone" (its page was unloaded);
\* message, file, ids, formData: the handler's locals; posts: the POST /users of the
\* createUser call chain it is in; req: the request it waits on; out: its
\* addMessage, showToast and download calls so far.
InitProc == [op |-> "none", pc |-> "idle", message |-> <<>>, posts |-> 0, file |-> NoFile,
             ids |-> <<0, 0, 0>>, formData |-> NoForm, req |-> NoRequest, out |-> <<>>]

\* The state as one record, so that a handler reads as the composition of
\* the calls it makes.
State ==
    [currentUser |-> currentUser, chatHistory |-> chatHistory, lsUser |-> lsUser,
     lsHistory |-> lsHistory, messageInput |-> messageInput, file |-> file,
     transcript |-> transcript, welcome |-> welcome, sendDisabled |-> sendDisabled,
     loading |-> loading, proc |-> proc, started |-> started, clock |-> clock]

Becomes(s) ==
    /\ currentUser' = s.currentUser
    /\ chatHistory' = s.chatHistory
    /\ lsUser' = s.lsUser
    /\ lsHistory' = s.lsHistory
    /\ messageInput' = s.messageInput
    /\ file' = s.file
    /\ transcript' = s.transcript
    /\ welcome' = s.welcome
    /\ sendDisabled' = s.sendDisabled
    /\ loading' = s.loading
    /\ proc' = s.proc
    /\ started' = s.started
    /\ clock' = s.clock
    /\ UNCHANGED buildVars

\* ------------------------------------------------------ view helpers
\* p is the invocation a call is made on behalf of; the call is recorded
\* in proc[p].out.  A toast is an entry of out only: the toast container
\* is written and never read.
Logged(s, p, e) == [s EXCEPT !.proc[p].out = Append(@, e)]

addMessage(s, p, content, type) ==
    LET e == [type |-> type, content |-> content]
    IN  Logged([s EXCEPT !.transcript = Append(IF s.welcome THEN <<>> ELSE @, e),
                         !.welcome = FALSE], p, e)

showToast(s, p, message, type) == Logged(s, p, [type |-> type, content |-> message])

showModal(s, modalId) == IF modalId = "loadingModal" THEN [s EXCEPT !.loading = TRUE] ELSE s

hideModal(s, modalId) == IF modalId = "loadingModal" THEN [s EXCEPT !.loading = FALSE] ELSE s

showLoading(s) == showModal(s, "loadingModal")

hideLoading(s) == hideModal(s, "loadingModal")

clearFile(s) == [s EXCEPT !.file = NoFile]

\* ------------------------------------------------------- chat history
\* Array.prototype.slice(-n): the last n elements, all of them when fewer
sliceLast_First(seq, n) == SubSeq(seq, 1, n)

sliceLast(seq, n) == IF Len(seq) > n THEN SubSeq(seq, Len(seq) - n + 1, Len(seq)) ELSE seq

\* a saveChatHistory that never drops an entry
saveChatHistory_NoCap(s, query, response) ==
    LET pushed == Append(s.chatHistory,
                         [query |-> query, response |-> response, timestamp |-> s.clock + 1])
    IN  [s EXCEPT !.chatHistory = pushed, !.lsHistory = stringify(pushed), !.clock = @ + 1]

\* a saveChatHistory that keeps the history in memory only
saveChatHistory_MemoryOnly(s, query, response) ==
    LET pushed == Append(s.chatHistory,
                         [query |-> query, response |-> response, timestamp |-> s.clock + 1])
        kept == IF Len(pushed) > HistoryCap THEN sliceLast(pushed, HistoryCap) ELSE pushed
    IN  [s EXCEPT !.chatHistory = kept, !.clock = @ + 1]

saveChatHistory(s, query, response) ==
    LET pushed == Append(s.chatHistory,
                         [query |-> query, response |-> response, timestamp |-> s.clock + 1])
        kept == IF Len(pushed) > HistoryCap THEN sliceLast(pushed, HistoryCap) ELSE pushed
    IN  [s EXCEPT !.chatHistory = kept, !.lsHistory = stringify(kept), !.clock = @ + 1]

loadUserData(s) ==
    LET s1 == IF s.lsUser # NoItem THEN [s EXCEPT !.currentUser = parse(s.lsUser)] ELSE s
    IN  IF s1.lsHistory # NoItem THEN [s1 EXCEPT !.chatHistory = parse(s1.lsHistory)] ELSE s1

\* ------------------------------------------------------------ requests
\* fetch(...) followed by await: the request leaves and the invocation
\* is suspended at pc until the reply comes.
fetch(s, p, rq, pc) == [s EXCEPT !.proc[p].req = rq, !.proc[p].pc = pc]

\* the handler is entered: it takes the next slot
begin(s, op) ==
    [s EXCEPT !.started = @ + 1, !.proc[s.started + 1].op = op, !.proc[s.started + 1].pc = "run"]

\* the handler returns: its locals are gone
finish(s, p) ==
    [s EXCEPT !.proc[p] = [InitProc EXCEPT !.op = s.proc[p].op, !.pc = "done",
                                           !.out = s.proc[p].out]]

\* ---------------------------------------------------------- sendMessage
\* a catch block that only raises the notification
sendCatch_NoApology(s, p) ==
    LET s1 == showToast(s, p, <<"Error sending message. Please try again.">>, "error")
    IN  finish([s1 EXCEPT !.sendDisabled = FALSE], p)

sendCatch(s, p) ==
    LET s1 == showToast(s, p, <<"Error sending message. Please try again.">>, "error")
        s2 == addMessage(s1, p, Apology, "bot")
    IN  finish([s2 EXCEPT !.sendDisabled = FALSE], p)

callGeminiAPI(s, p, query) ==
    IF s.currentUser = NoUser
    THEN sendCatch(s, p)
    ELSE fetch(s, p, Request("/chat", s.currentUser.id, query), "chat")

\* a reply read with the response field first
chatText_ResponseFirst(data) ==
    IF data.response # <<>> THEN data.response
    ELSE IF data.answer # <<>> THEN data.answer
    ELSE Unexpected

chatText(data) ==
    IF data.answer # <<>> THEN data.answer
    ELSE IF data.response # <<>> THEN data.response
    ELSE Unexpected

chatResume(s, p, r) ==
    IF r.rejected \/ ~ok(r) \/ ~r.body.readable
    THEN sendCatch(s, p)
    ELSE LET response == chatText(r.body)
             s1 == addMessage(s, p, response, "bot")
             s2 == saveChatHistory(s1, s.proc[p].message, response)
         IN  finish([s2 EXCEPT !.sendDisabled = FALSE], p)

\* ------------------------------------------------ submitPredictionForm
predictionMessage(result) == <<"Disease: ", "Risk: ", "Explanation:", "Recommendations:">>

predictRequest(s, p) ==
    fetch(showLoading(s), p,
          Request("/predict", s.currentUser.id, PredictionBodies[s.proc[p].formData]), "predict")

predictResume(s, p, r) ==
    IF r.rejected \/ ~ok(r) \/ ~r.body.readable
    THEN finish(hideLoading(
             showToast(s, p, <<"Error calculating risk. Please try again.">>, "error")), p)
    ELSE LET s1 == addMessage(s, p, predictionMessage(r.body), "bot")
             s2 == hideModal(s1, "predictionModal")
             s3 == showToast(s2, p, <<"Risk assessment completed successfully!">>, "success")
         IN  finish(hideLoading(s3), p)

\* ------------------------------------------------------- analyzeReport
analysisMessage(result) == <<"Medical Report Analysis:", "Findings:", "Advice:">>

uploadRequest(s, p) ==
    fetch(showLoading(s), p,
          Request("/analyze-report", s.currentUser.id, <<s.proc[p].file>>), "upload")

uploadResume(s, p, r) ==
    IF r.rejected \/ ~ok(r) \/ ~r.body.readable
    THEN finish(hideLoading(
             showToast(s, p, <<"Error analyzing report. Please try again.">>, "error")), p)
    ELSE LET s1 == addMessage(s, p, analysisMessage(r.body), "bot")
             s2 == clearFile(hideModal(s1, "analyzeModal"))
             s3 == showToast(s2, p, <<"Report analysis completed successfully!">>, "success")
         IN  finish(hideLoading(s3), p)

\* ------------------------------------------------------ generateReport
\* String.prototype.substring(0, n)
substring(str, n) == SubSeq(str, 1, IF Len(str) < n THEN Len(str) ELSE n)

RECURSIVE topics(_)
topics(h) ==
    IF h = <<>> THEN <<>>
    ELSE <<"* ">> \o substring(Head(h).query, 50) \o <<"...">> \o topics(Tail(h))

reportMessage(h) ==
    <<"# Health Summary Report", "## Topics Discussed">> \o topics(h)
        \o <<"## General Health Advice">>

createFallbackReport(s, p) ==
    showToast(addMessage(s, p, reportMessage(s.chatHistory), "bot"), p,
              <<"Health summary created based on our conversation">>, "success")

historyRequest(s, p, which) ==
    fetch(s, p, Request("/history/" \o which, s.currentUser.id, <<>>), which)

generateCatch(s, p) ==
    finish(hideLoading(
        showToast(s, p, <<"Error generating report. Please try again.">>, "error")), p)

\* the end of the three lookups: the fallback report or the request
generateDecide(s, p) ==
    LET ids == s.proc[p].ids
    IN  IF ids[1] = 0 /\ ids[2] = 0 /\ ids[3] = 0
        THEN finish(hideLoading(createFallbackReport(hideLoading(s), p)), p)
        ELSE fetch(s, p, Request("/generate-report", s.currentUser.id, ids), "generate")

\* a lookup that takes the oldest record of the list
latestId_Last(r, before) ==
    IF ~r.rejected /\ ok(r) /\ r.body.readable /\ Len(r.body.list) > 0
    THEN r.body.list[Len(r.body.list)]
    ELSE before

\* the id a history lookup leaves in its variable
latestId(r, before) ==
    IF ~r.rejected /\ ok(r) /\ r.body.readable /\ Len(r.body.list) > 0
    THEN r.body.list[1]
    ELSE before

\* lookups that give up the operation at the first failed reply
historyResume_Abort(s, p, r) ==
    LET pc == s.proc[p].pc
        k == CASE pc = "predictions" -> 1 [] pc = "chats" -> 2 [] OTHER -> 3
        s1 == [s EXCEPT !.proc[p].ids[k] = latestId(r, @)]
    IN  IF r.rejected \/ ~ok(r) \/ ~r.body.readable THEN generateCatch(s, p)
        ELSE CASE pc = "predictions" -> historyRequest(s1, p, "chats")
             []   pc = "chats" -> historyRequest(s1, p, "reports")
             []   OTHER -> generateDecide(s1, p)

historyResume(s, p, r) ==
    LET pc == s.proc[p].pc
        k == CASE pc = "predictions" -> 1 [] pc = "chats" -> 2 [] OTHER -> 3
        s1 == [s EXCEPT !.proc[p].ids[k] = latestId(r, @)]
    IN  CASE pc = "predictions" -> historyRequest(s1, p, "chats")
        []   pc = "chats" -> historyRequest(s1, p, "reports")
        []   OTHER -> generateDecide(s1, p)

generateResume(s, p, r) ==
    IF r.rejected \/ ~ok(r) THEN generateCatch(s, p)
    ELSE IF r.body.pdf
    THEN finish(hideLoading(showToast(Logged(s, p, [type |-> "download",
                    content |-> <<"health-report-<date>.pdf">>]), p,
                    <<"Health report downloaded successfully!">>, "success")), p)
    ELSE IF ~r.body.readable THEN generateCatch(s, p)
    ELSE finish(hideLoading(
             showToast(s, p, <<"Report generated successfully!">>, "success")), p)

generateLookups(s, p) == historyRequest(showLoading(s), p, "predictions")

\* ---------------------------------------------------------- createUser
\* what a handler does once `currentUser = await this.createUser(...)` has
\* run, or at once when currentUser was already set
proceed(s, p) ==
    LET op == s.proc[p].op
    IN  CASE op = "sendMessage" -> callGeminiAPI(s, p, s.proc[p].message)
        []   op = "submitPredictionForm" -> predictRequest(s, p)
        []   op = "analyzeReport" -> uploadRequest(s, p)
        []   OTHER -> generateLookups(s, p)

createUser(s, p, name, email) ==
    fetch([s EXCEPT !.proc[p].posts = IF @ < MaxPosts THEN @ + 1 ELSE @], p,
          Request("/users", 0, << IF name # "" THEN name ELSE "Guest User",
                                  IF email # "" THEN email ELSE MockEmail >>), "users")

\* how createUser reads the reply to POST /users
createUserOutcome(r) ==
    IF r.rejected THEN "mock"
    ELSE IF ~ok(r)
         THEN IF ~r.body.readable THEN "mock"
              ELSE IF r.status = 400 /\ r.body.detail = "Email already registered"
                   THEN "retry"
                   ELSE "mock"
         ELSE IF ~r.body.readable THEN "mock" ELSE "user"

\* the user createUser returns: the backend's, or the placeholder
returnedUser(r, random) ==
    IF createUserOutcome(r) = "user" THEN r.body.user
    ELSE User(random, "Guest User", MockEmail)

\* a createUser that stores only what the backend gave
createUserReturn_Unsaved(s, p, r, random) ==
    IF createUserOutcome(r) = "user"
    THEN showToast([s EXCEPT !.lsUser = stringify(returnedUser(r, random))], p,
                   <<"User profile created successfully!">>, "success")
    ELSE s

\* what createUser does before it returns that user
createUserReturn(s, p, r, random) ==
    IF createUserOutcome(r) = "user"
    THEN showToast([s EXCEPT !.lsUser = stringify(returnedUser(r, random))], p,
                   <<"User profile created successfully!">>, "success")
    ELSE [s EXCEPT !.lsUser = stringify(returnedUser(r, random))]

\* the caller's `currentUser = await this.createUser(...)`
assignUser(s, p, user) == [s EXCEPT !.currentUser = user, !.proc[p].posts = 0]

createUserResume(s, p, r, random) ==
    IF createUserOutcome(r) = "retry"
    THEN createUser(s, p, "Guest User", RetryEmail(s.proc[p].req.body[2]))
    ELSE proceed(assignUser(createUserReturn(s, p, r, random), p,
                            returnedUser(r, random)), p)

\* a handler that goes on without an identity
ensureUser_Skip(s, p) == proceed(s, p)

ensureUser(s, p) ==
    IF s.currentUser = NoUser
    THEN createUser(s, p, "Guest User", GuestEmail)
    ELSE proceed(s, p)

\* ------------------------------------------------------------ handlers
sendMessage(s) ==
    LET p == s.started + 1
        message == trim(s.messageInput)
        s0 == [begin(s, "sendMessage") EXCEPT !.proc[p].message = message]
    IN  IF message = <<>> THEN finish(s0, p)
        ELSE LET s1 == addMessage(s0, p, message, "user")
                 s2 == [s1 EXCEPT !.messageInput = <<>>, !.sendDisabled = TRUE]
             IN  ensureUser(s2, p)

\* form: what the fields of #predictionForm hold at the submit
submitPredictionForm(s, form) ==
    LET p == s.started + 1
    IN  ensureUser([begin(s, "submitPredictionForm") EXCEPT !.proc[p].formData = form], p)

analyzeReport(s) ==
    LET p == s.started + 1
        s0 == [begin(s, "analyzeReport") EXCEPT !.proc[p].file = s.file]
    IN  IF s.file = NoFile
        THEN finish(showToast(s0, p, <<"Please select a PDF file first">>, "error"), p)
        ELSE ensureUser(s0, p)

generateReport(s) == ensureUser(begin(s, "generateReport"), s.started + 1)

\* a change handler that accepts a PDF of any size
handleFileSelect_AnySize(s) ==
    LET p == s.started + 1
        s0 == begin(s, "handleFileSelect")
    IN  IF s.file = NoFile THEN finish(s0, p)
        ELSE IF s.file.type # "application/pdf"
        THEN finish(clearFile(showToast(s0, p, <<"Please select a PDF file">>, "error")), p)
        ELSE finish(s0, p)

handleFileSelect(s) ==
    LET p == s.started + 1
        s0 == begin(s, "handleFileSelect")
    IN  IF s.file = NoFile THEN finish(s0, p)
        ELSE IF s.file.type # "application/pdf"
        THEN finish(clearFile(showToast(s0, p, <<"Please select a PDF file">>, "error")), p)
        ELSE IF s.file.size > MaxFileBytes
        THEN finish(clearFile(showToast(s0, p,
                 <<"File too large. Please select a file under 10MB.">>, "error")), p)
        ELSE finish(s0, p)

\* a reset that leaves the stored history in place
startNewChat_KeepStored(s) ==
    LET p == s.started + 1
        s0 == begin(s, "startNewChat")
        s1 == [s0 EXCEPT !.transcript = <<>>, !.welcome = TRUE, !.chatHistory = <<>>]
    IN  finish(showToast(s1, p, <<"New conversation started">>, "success"), p)

startNewChat(s) ==
    LET p == s.started + 1
        s0 == begin(s, "startNewChat")
        s1 == [s0 EXCEPT !.transcript = <<>>, !.welcome = TRUE, !.chatHistory = <<>>,
                         !.lsHistory = NoItem]
    IN  finish(showToast(s1, p, <<"New conversation started">>, "success"), p)

\* a fresh page: the module-level state and the DOM as the script and the
\* document define them, localStorage as the previous page left it; the
\* invocations of the page before are gone
Fresh(s) ==
    [s EXCEPT !.currentUser = NoUser, !.chatHistory = <<>>, !.messageInput = <<>>,
              !.file = NoFile, !.transcript = <<>>, !.welcome = TRUE,
              !.sendDisabled = FALSE, !.loading = FALSE,
              !.proc = [p \in Procs |->
                          IF p > s.started THEN InitProc ELSE [InitProc EXCEPT !.pc = "gone"]]]

\* ------------------------------------------------------------- actions
Awaits == {"users", "chat", "predict", "upload", "predictions", "chats", "reports", "generate"}
Running(p) == proc[p].pc \in Awaits

\* The user has typed v into the message box and clicks the send button;
\* a disabled button dispatches no click.
SendClick(v) ==
    /\ started < MaxStarts
    /\ ~sendDisabled
    /\ Becomes(sendMessage([State EXCEPT !.messageInput = v]))

\* The user has typed v and presses Enter in the message box.
SendEnter(v) ==
    /\ started < MaxStarts
    /\ Becomes(sendMessage([State EXCEPT !.messageInput = v]))

\* the quick-action buttons are part of the welcome screen
SendQuick ==
    /\ started < MaxStarts
    /\ welcome
    /\ Becomes(sendMessage([State EXCEPT !.messageInput = QuickPrompt]))

SubmitPrediction(form) == started < MaxStarts /\ Becomes(submitPredictionForm(State, form))

\* the picker or a drop puts f into the file input and the change handler runs
SelectFile(f) == started < MaxStarts /\ Becomes(handleFileSelect([State EXCEPT !.file = f]))

AnalyzeClick == started < MaxStarts /\ Becomes(analyzeReport(State))

GenerateClick == started < MaxStarts /\ Becomes(generateReport(State))

NewChatClick == started < MaxStarts /\ Becomes(startNewChat(State))

\* the page is loaded again: the constructor's loadUserData on a fresh page
PageLoad == Becomes(loadUserData(Fresh(State)))

\* the email of the POST /users invocation p waits on
postedEmail(p) == IF proc[p].pc = "users" THEN proc[p].req.body[2] ELSE ""

\* The replies below are what the awaited fetch of invocation p gives; the
\* action is the run of the handler from that await to its next one.
\* random: what Math.random gives the placeholder identity
UsersResponse(p, r, random) ==
    /\ proc[p].pc = "users"
    /\ r \in UsersReplies(postedEmail(p))
    /\ Becomes(createUserResume(State, p, r, random))

ChatResponse(p, r) ==
    proc[p].pc = "chat" /\ r \in ChatReplies /\ Becomes(chatResume(State, p, r))

PredictResponse(p, r) ==
    proc[p].pc = "predict" /\ r \in PredictReplies /\ Becomes(predictResume(State, p, r))

UploadResponse(p, r) ==
    proc[p].pc = "upload" /\ r \in UploadReplies /\ Becomes(uploadResume(State, p, r))

HistoryResponse(p, r) ==
    /\ proc[p].pc \in {"predictions", "chats", "reports"}
    /\ r \in HistoryReplies
    /\ Becomes(historyResume(State, p, r))

GenerateResponse(p, r) ==
    proc[p].pc = "generate" /\ r \in GenerateReplies /\ Becomes(generateResume(State, p, r))

AllReplies ==
    UsersReplies(GuestEmail) \cup UsersReplies(RetryEmails[1]) \cup UsersReplies(RetryEmails[2])
        \cup ChatReplies
        \cup PredictReplies \cup UploadReplies \cup HistoryReplies \cup GenerateReplies

\* the continuation of invocation p after the await it was suspended at
Resume(p) ==
    \E r \in AllReplies :
        \/ \E random \in 1..MaxId : UsersResponse(p, r, random)
        \/ ChatResponse(p, r)
        \/ PredictResponse(p, r)
        \/ UploadResponse(p, r)
        \/ HistoryResponse(p, r)
        \/ GenerateResponse(p, r)

\* ---------------------------------------------------------------- Init
OldEntry(i) == [query |-> <<"o">>, response |-> <<"O">>, timestamp |-> i]
OldHistory(n) == [i \in 1..n |-> OldEntry(i)]
\* what an earlier page of this program can have left in localStorage
StoredUsers == { NoItem, stringify(User(1, "Guest User", GuestEmail)) }
StoredLengths == { HistoryCap - 1, HistoryCap }
StoredHistories == { NoItem } \cup { stringify(OldHistory(n)) : n \in StoredLengths }

Blank ==
    [currentUser |-> NoUser, chatHistory |-> <<>>, lsUser |-> NoItem, lsHistory |-> NoItem,
     messageInput |-> <<>>, file |-> NoFile, transcript |-> <<>>, welcome |-> TRUE,
     sendDisabled |-> FALSE, loading |-> FALSE,
     proc |-> [p \in Procs |-> InitProc], started |-> 0, clock |-> 0]

Init ==
    \E u \in StoredUsers, h \in StoredHistories :
        LET s == loadUserData([Blank EXCEPT !.lsUser = u, !.lsHistory = h,
                                            !.clock = IF h = NoItem THEN 0 ELSE Len(parse(h))])
        IN  /\ currentUser = s.currentUser
            /\ chatHistory = s.chatHistory
            /\ lsUser = s.lsUser
            /\ lsHistory = s.lsHistory
            /\ messageInput = s.messageInput
            /\ file = s.file
            /\ transcript = s.transcript
            /\ welcome = s.welcome
            /\ sendDisabled = s.sendDisabled
            /\ loading = s.loading
            /\ proc = s.proc
            /\ started = s.started
            /\ clock = s.clock
            /\ step = "start" /\ artifact = "none" /\ console = <<>> /\ status = 0

Next ==
    \/ \E v \in Inputs : SendClick(v)
    \/ \E v \in Inputs : SendEnter(v)
    \/ SendQuick
    \/ \E form \in Forms : SubmitPrediction(form)
    \/ \E f \in Files \cup {NoFile} : SelectFile(f)
    \/ AnalyzeClick
    \/ GenerateClick
    \/ NewChatClick
    \/ PageLoad
    \/ \E p \in Procs : Resume(p)

Spec == Init /\ [][Next]_vars

\* Every request is answered: a suspended invocation is eventually resumed.
\* The pages start with no stored chat history.
FairInit == Init /\ lsHistory = NoItem
FairSpec == FairInit /\ [][Next]_vars /\ \A p \in Procs : WF_vars(Resume(p))

\* ============================================================ build.sh
\* The script runs its commands in order and has no `set -e`: a command that
\* fails leaves its status in $? and the next command runs.  What pip, mkdir
\* and the Python programs do is the environment's choice among the outcomes
\* the command can have.
echo(s, text) == [s EXCEPT !.console = Append(@, text)]
Build == [step |-> step, artifact |-> artifact, console |-> console, status |-> status]
BuildBecomes(s) ==
    /\ step' = s.step
    /\ artifact' = s.artifact
    /\ console' = s.console
    /\ status' = s.status
    /\ UNCHANGED pageVars

\* a Python program that ends by an exception nobody catches
Traceback == "Traceback (most recent call last): ..."
uncaught(s) == [echo(s, Traceback) EXCEPT !.status = 1]

\* lines 4-8
InstallDependencies(installed) ==
    /\ step = "start"
    /\ BuildBecomes([echo(echo(Build, "=== Starting Build Process ==="),
                          "Installing Python dependencies...")
                       EXCEPT !.status = IF installed THEN 0 ELSE 1, !.step = "directories"])

\* lines 10-14
CreateDirectories(created) ==
    /\ step = "directories"
    /\ BuildBecomes([echo(Build, "Creating directories...")
                       EXCEPT !.status = IF created THEN 0 ELSE 1, !.step = "database"])

\* lines 16-25: the import stands before the try
DatabaseOutcomes == {"import raises", "created", "create_all raises"}
SetUpDatabase(outcome) ==
    /\ step = "database"
    /\ LET s == [echo(Build, "Setting up database...") EXCEPT !.step = "model", !.status = 0]
       IN  BuildBecomes(CASE outcome = "import raises" -> uncaught(s)
                        []   outcome = "created" ->
                                 echo(s, "Database tables created successfully")
                        []   OTHER -> echo(s, "Database setup error: ..."))

\* lines 38-47: the except block; it ends by an uncaught exception when one of
\* its own statements raises
FallbackOutcomes == {"dumped", "raises"}
fallbackModel(s, fallback) ==
    LET s1 == echo(echo(s, "Model training failed: ..."), "Creating fallback model...")
    IN  IF fallback = "dumped"
        THEN echo([s1 EXCEPT !.artifact = "fallback"], "Fallback model created for deployment")
        ELSE uncaught(s1)

\* lines 31-48: the import stands before the try; inside it the training
\* returns the accuracy with the model saved, returns something the format
\* {accuracy:.2f} refuses, raises an Exception, or ends the process (SystemExit,
\* a kill), which `except Exception` does not catch
TrainOutcomes == {"import raises", "trained", "trained, no accuracy", "raises", "exits"}
trainModel(s, train, fallback) ==
    CASE train = "import raises" -> uncaught(s)
    []   train = "trained" ->
             echo([s EXCEPT !.artifact = "trained"],
                  "Model trained successfully with accuracy: ...")
    []   train = "trained, no accuracy" -> fallbackModel([s EXCEPT !.artifact = "trained"], fallback)
    []   train = "raises" -> fallbackModel(s, fallback)
    []   OTHER -> [s EXCEPT !.status = 1]

\* lines 51-58
LoadOutcomes == {"import raises", "loaded", "raises"}
loadModel(s, load) ==
    CASE load = "import raises" -> uncaught(s)
    []   load = "loaded" -> echo(s, "Model loaded successfully")
    []   OTHER -> echo(s, "Model loading failed: ...")

\* lines 27-59, with no model file there
TrainModel(train, fallback) ==
    /\ step = "model"
    /\ artifact = "none"
    /\ LET s == [echo(echo(Build, "Setting up ML model..."), "Training initial model...")
                   EXCEPT !.step = "imports", !.status = 0]
       IN  BuildBecomes(trainModel(s, train, fallback))

\* lines 27-59, with a model file there
LoadModel(load) ==
    /\ step = "model"
    /\ artifact # "none"
    /\ LET s == [echo(echo(Build, "Setting up ML model..."), "Model already exists, loading...")
                   EXCEPT !.step = "imports", !.status = 0]
       IN  BuildBecomes(loadModel(s, load))

\* lines 61-70: the except block prints and raises again
TestImports(imported) ==
    /\ step = "imports"
    /\ LET s == [echo(Build, "Testing imports...") EXCEPT !.step = "completed", !.status = 0]
       IN  BuildBecomes(IF imported THEN echo(s, "All imports successful")
                        ELSE uncaught(echo(s, "Import error: ...")))

\* line 72
Completed ==
    /\ step = "completed"
    /\ BuildBecomes([echo(Build, "=== Build Completed Successfully ===")
                       EXCEPT !.step = "end", !.status = 0])

\* the script is started in a checkout with or without a model file in it;
\* no page of the client is open
BuildInit ==
    /\ step = "start" /\ console = <<>> /\ status = 0
    /\ artifact \in {"none", "old"}
    /\ currentUser = Blank.currentUser /\ chatHistory = Blank.chatHistory
    /\ lsUser = Blank.lsUser /\ lsHistory = Blank.lsHistory
    /\ messageInput = Blank.messageInput /\ file = Blank.file
    /\ transcript = Blank.transcript /\ welcome = Blank.welcome
    /\ sendDisabled = Blank.sendDisabled /\ loading = Blank.loading
    /\ proc = Blank.proc /\ started = Blank.started /\ clock = Blank.clock

BuildNext ==
    \/ \E installed \in BOOLEAN : InstallDependencies(installed)
    \/ \E created \in BOOLEAN : CreateDirectories(created)
    \/ \E outcome \in DatabaseOutcomes : SetUpDatabase(outcome)
    \/ \E train \in TrainOutcomes, fallback \in FallbackOutcomes : TrainModel(train, fallback)
    \/ \E load \in LoadOutcomes : LoadModel(load)
    \/ \E imported \in BOOLEAN : TestImports(imported)
    \/ Completed

BuildSpec == BuildInit /\ [][BuildNext]_vars

\* ================================================================ claims
Sends == { p \in Procs : proc[p].op = "sendMessage" }
Min(a, b) == IF a < b THEN a ELSE b
Last(seq) == seq[Len(seq)]
IsMessage(e) == e.type \in {"user", "bot"}
IsBlank(v) == \A i \in 1..Len(v) : v[i] = Space
\* the /chat call succeeds: it resolves with a success status and a body that parses
ChatSucceeds(r) == ~r.rejected /\ r.status \in 200..299 /\ r.body.readable
ErrorToast(text) == [type |-> "error", content |-> <<text>>]

\* what a finished sendMessage with a non-empty text has put out
C1_Shape ==
    \A p \in Sends :
        (proc[p].pc = "done" /\ proc[p].out # <<>>) =>
            LET msgs == SelectSeq(proc[p].out, IsMessage)
            IN  /\ Len(msgs) = 2
                /\ proc[p].out[1] = msgs[1]
                /\ msgs[1].type = "user" /\ msgs[1].content # <<>>
                /\ msgs[2].type = "bot"
                /\ Last(proc[p].out) = msgs[2]

\* the run of sendMessage that receives the reply to /chat
C1_Step ==
    \A p \in Procs : \A r \in ChatReplies :
        ChatResponse(p, r) =>
            IF ChatSucceeds(r)
            THEN /\ \E text \in {r.body.answer, r.body.response, Unexpected} \ {<<>>} :
                       /\ proc'[p].out = Append(proc[p].out, [type |-> "bot", content |-> text])
                       /\ Last(chatHistory').query = proc[p].message
                       /\ Last(chatHistory').response = text
                 /\ Cardinality({ i \in 1..Len(chatHistory') :
                                    chatHistory'[i].timestamp > clock }) = 1
                 /\ \A i \in 1..Len(chatHistory') :
                        chatHistory'[i].timestamp <= clock =>
                            \E j \in 1..Len(chatHistory) : chatHistory[j] = chatHistory'[i]
                 /\ lsHistory' = <<chatHistory'>>
            ELSE /\ proc'[p].out = proc[p].out \o
                        << ErrorToast("Error sending message. Please try again."),
                           [type |-> "bot", content |-> Apology] >>
                 /\ UNCHANGED << chatHistory, lsHistory >>

\* C1: a sendMessage call with non-empty text that runs to completion adds
\* exactly two transcript entries, the user entry first and then one assistant
\* entry; when the chat call succeeds the assistant entry is the reply and
\* exactly one history entry is recorded; when it fails the assistant entry is
\* the generic apology, an error notification is raised and the chat history
\* is unchanged in memory and in storage.
C1_ExchangeOutcome == [](C1_Shape) /\ [][C1_Step]_vars

\* one exchange has ended with the apology and another with a reply
C1_Witness ==
    \E p, q \in Sends :
        /\ proc[p].pc = "done" /\ proc[p].out # <<>>
        /\ Last(proc[p].out).content = Apology
        /\ proc[q].pc = "done" /\ proc[q].out # <<>>
        /\ Last(proc[q].out).content = <<"A">>
        /\ chatHistory # <<>> /\ Last(chatHistory).response = <<"A">>

\* C2: a successful chat exchange starting from a history of length n appends
\* exactly one entry {query, response, timestamp} as the last element and
\* leaves a stored sequence of length min(n + 1, 50); at n = 50 the oldest
\* entry is the one evicted and the others keep their order.
C2_AppendAndCap ==
    [][ \A p \in Procs : \A r \in ChatReplies :
          (ChatResponse(p, r) /\ ChatSucceeds(r)) =>
              LET n == Len(chatHistory)
                  m == Len(chatHistory')
              IN  /\ n <= 50
                  /\ m = Min(n + 1, 50)
                  /\ chatHistory'[m].query = proc[p].message
                  /\ chatHistory'[m].response = Last(transcript').content
                  /\ chatHistory'[m].timestamp > clock
                  /\ n < 50 => SubSeq(chatHistory', 1, n) = chatHistory
                  /\ n = 50 => SubSeq(chatHistory', 1, 49) = SubSeq(chatHistory, 2, 50)
                  /\ lsHistory' = <<chatHistory'>> ]_vars

\* an exchange has succeeded on a full history: the oldest entry is gone
C2_Witness ==
    /\ Len(chatHistory) = 50
    /\ chatHistory[50].timestamp = 51
    /\ chatHistory[50].query = <<"a">>
    /\ chatHistory[1] = OldEntry(2)

\* C3: in every reachable state the chat history holds at most 50 entries, in
\* memory and in durable storage.
C3_HistoryBounded ==
    /\ Len(chatHistory) <= 50
    /\ lsHistory # <<>> => Len(lsHistory[1]) <= 50

\* two exchanges have been recorded on a history that was full
C3_Witness ==
    /\ Len(chatHistory) = 50
    /\ clock = 52
    /\ lsHistory = <<chatHistory>>

\* C4: sendMessage on an input that is empty after trimming adds no transcript
\* entry, sends no request, leaves the send control as it is and leaves
\* identity and chat history unchanged.
C4_BlankSendIsNoOp ==
    [][ \A v \in Inputs :
          (IsBlank(v) /\ (SendClick(v) \/ SendEnter(v))) =>
              /\ UNCHANGED << transcript, welcome, sendDisabled, loading, currentUser, lsUser,
                              chatHistory, lsHistory, clock >>
              /\ \A q \in Procs : q # started' => proc'[q] = proc[q]
              /\ proc'[started'].out = <<>>
              /\ proc'[started'].req.path = ""
              /\ proc'[started'].pc = "done" ]_vars

\* a send on a box holding only a space has returned, with a send in flight
C4_Witness ==
    /\ messageInput = <<" ">>
    /\ \E p \in Sends : proc[p].pc = "done" /\ proc[p].out = <<>>
    /\ \E q \in Sends : proc[q].pc = "chat"

\* C5: once the session has an identity it never changes, no further
\* identity-creation request is issued, and every later request carries the
\* same user id.
C5_IdentityStable ==
    [][ currentUser # NoUser =>
          /\ currentUser' = currentUser
          /\ \A p \in Procs :
                (proc'[p].req # proc[p].req /\ proc'[p].req.path # "") =>
                    /\ proc'[p].req.path # "/users"
                    /\ proc'[p].req.user_id = currentUser.id ]_vars

\* C6: one ensureUser invocation issues at most two POST /users, whatever the
\* backend answers to the retry.
C6_AtMostTwoPosts == \A p \in Procs : proc[p].posts <= 2

IsDuplicateReply(r) ==
    /\ ~r.rejected
    /\ r.status = 400
    /\ r.body.readable
    /\ r.body.detail = "Email already registered"
UserCreated(r) == ~r.rejected /\ r.status \in 200..299 /\ r.body.readable
Placeholder(u) == u.id \in 1..1000 /\ u.name = "Guest User" /\ u.email = MockEmail
OwnRequests == {"/chat", "/predict", "/analyze-report", "/history/predictions"}

\* C7: when identity creation fails for a reason other than a duplicate-email
\* reply, ensureUser returns a placeholder identity and stores it, and the
\* calling operation goes on to its backend call with that identity; whatever
\* the reply, the identity ensureUser returns is the one in durable storage.
C7_PlaceholderIdentity ==
    [][ \A p \in Procs : \A r \in UsersReplies(postedEmail(p)) : \A random \in 1..MaxId :
          (UsersResponse(p, r, random) /\ ~IsDuplicateReply(r)) =>
              /\ currentUser' # NoUser
              /\ lsUser' = <<currentUser'>>
              /\ ~UserCreated(r) => Placeholder(currentUser')
              /\ UserCreated(r) => currentUser' = r.body.user
              /\ proc'[p].pc # "done"
              /\ proc'[p].req.path \in OwnRequests
              /\ proc'[p].req.user_id = currentUser'.id
              /\ \A i \in 1..Len(proc'[p].out) : proc'[p].out[i].type # "error" ]_vars

\* a chat request is in flight under a placeholder identity, which is stored
C7_Witness ==
    /\ Placeholder(currentUser)
    /\ lsUser = <<currentUser>>
    /\ \E p \in Sends : proc[p].pc = "chat" /\ proc[p].req.user_id = currentUser.id

HasIndicator(p) ==
    proc[p].op \in {"sendMessage", "submitPredictionForm", "analyzeReport", "generateReport"}
Indicator(p) == IF proc[p].op = "sendMessage" THEN sendDisabled ELSE loading
Released(p) == ~Running(p) /\ (HasIndicator(p) => ~Indicator(p))
Busy(p) == Running(p) /\ HasIndicator(p) /\ Indicator(p)

\* C8: with every request answered, every operation whose busy indicator is
\* active ends, and the run that ends an operation leaves its busy indicator
\* cleared: the send control enabled after sendMessage, the loading overlay
\* hidden after the other three.
C8_BusyReleased ==
    /\ \A p \in Procs : Busy(p) ~> Released(p)
    /\ [][ \A p \in Procs : (Running(p) /\ ~Running(p)') => Released(p)' ]_vars

\* C9: at most one chat exchange is in flight at any time.
C9_OneSendInFlight == Cardinality({ p \in Sends : Running(p) }) <= 1

\* C10: an operation's busy indicator is active from its first backend request
\* until the operation has ended, whatever other operations do.
C10_BusyWhileRunning == \A p \in Procs : (Running(p) /\ HasIndicator(p)) => Indicator(p)

ValidFile(f) == f.type = "application/pdf" /\ f.size <= MaxFileBytes
Analyses == { p \in Procs : proc[p].op = "analyzeReport" }
Toast(text) == [type |-> "error", content |-> <<text>>]
RejectionOf(f) ==
    IF f = NoFile \/ ValidFile(f) THEN <<>>
    ELSE IF f.type # "application/pdf" THEN << Toast("Please select a PDF file") >>
    ELSE << Toast("File too large. Please select a file under 10MB.") >>

\* the selection of f: a file that is not a PDF or is over 10 MiB is refused
\* with the notification of its violation and leaves the input empty; an
\* analyze action on an empty input only raises its notification
C11_Step ==
    LET p == started + 1
    IN  /\ \A f \in Files \cup {NoFile} :
              SelectFile(f) =>
                  /\ file' = IF ValidFile(f) THEN f ELSE NoFile
                  /\ proc'[p].pc = "done"
                  /\ proc'[p].out = RejectionOf(f)
        /\ (AnalyzeClick /\ file = NoFile) =>
              /\ proc'[p].pc = "done"
              /\ proc'[p].out = << Toast("Please select a PDF file first") >>
              /\ proc'[p].req = NoRequest
              /\ currentUser' = currentUser /\ lsUser' = lsUser

\* C11: a file that is not a PDF or exceeds 10 MiB is refused with the
\* notification of its violation, an analyze action with no file present gets
\* its own notification, and in both cases analyzeReport issues no backend
\* call: whatever files were selected before, an analyzeReport that waits on
\* a request (identity creation or upload) holds a PDF of at most 10 MiB.
C11_InvalidFileNoCall ==
    /\ [](\A p \in Analyses : Running(p) =>
            /\ ValidFile(proc[p].file)
            /\ proc[p].req.path = "/analyze-report" => proc[p].req.body = <<proc[p].file>>)
    /\ [][C11_Step]_vars

\* an oversize PDF was refused at selection and the analyze action after it
\* ended with the no-file notification
C11_Witness ==
    \E p \in Procs, q \in Analyses :
        /\ proc[p].op = "handleFileSelect"
        /\ proc[p].out = << Toast("File too large. Please select a file under 10MB.") >>
        /\ proc[q].pc = "done"
        /\ proc[q].out = << Toast("Please select a PDF file first") >>

Reports == { p \in Procs : proc[p].op = "generateReport" }
Lookups == << "predictions", "chats", "reports" >>
LookupOf(pc) == CHOOSE k \in 1..3 : Lookups[k] = pc
\* the identifier a reply to a history lookup yields: the id of the first
\* record of the list, 0 when there is none
Yield(r) ==
    IF ~r.rejected /\ r.status \in 200..299 /\ r.body.readable /\ r.body.list # <<>>
    THEN Head(r.body.list) ELSE 0
Summary(h) == [type |-> "bot", content |-> reportMessage(h)]

C12_Step ==
    /\ \A p \in Procs : \A r \in HistoryReplies :
          HistoryResponse(p, r) =>
              LET k == LookupOf(proc[p].pc)
                  found == [proc[p].ids EXCEPT ![k] = Yield(r)]
              IN  /\ proc[p].ids[k] = 0
                  /\ k < 3 => proc'[p].ids = found /\ proc'[p].req.path # "/generate-report"
                  /\ (k = 3 /\ found = <<0, 0, 0>>) =>
                        /\ proc'[p].pc = "done"
                        /\ proc'[p].req = NoRequest
                        /\ Len(proc'[p].out) = Len(proc[p].out) + 2
                        /\ proc'[p].out[Len(proc[p].out) + 1] = Summary(chatHistory)
                        /\ ~IsMessage(Last(proc'[p].out))
                        /\ transcript' =
                              Append(IF welcome THEN <<>> ELSE transcript, Summary(chatHistory))
                  /\ (k = 3 /\ found # <<0, 0, 0>>) =>
                        /\ proc'[p].req = Request("/generate-report", currentUser.id, found)
                        /\ proc'[p].out = proc[p].out
                        /\ transcript' = transcript
    /\ \A p \in Procs :
          (proc'[p].req.path = "/generate-report" /\ proc'[p].req # proc[p].req) =>
              proc[p].pc = "reports"
    /\ \A p \in Procs : \A r \in GenerateReplies :
          GenerateResponse(p, r) =>
              /\ proc'[p].pc = "done"
              /\ \A e \in 1..Len(proc'[p].out) : ~IsMessage(proc'[p].out[e])

\* C12: generateReport issues a request to /generate-report exactly when one of
\* its three history lookups yielded an identifier: with none found it adds
\* exactly one local summary entry to the transcript and sends nothing to
\* /generate-report; otherwise it sends one request carrying the identifiers
\* found, each the first record of its list, and adds no transcript entry.
C12_ReportIffIdentifier ==
    /\ [](\A p \in Procs : proc[p].req.path = "/generate-report" =>
              /\ p \in Reports
              /\ proc[p].req.body = proc[p].ids
              /\ proc[p].ids # <<0, 0, 0>>)
    /\ [][C12_Step]_vars

\* one report waits on /generate-report with the first record of a two-record
\* list and nothing else; another has ended in the local summary
C12_Witness ==
    \E p, q \in Reports :
        /\ proc[p].req = Request("/generate-report", currentUser.id, <<0, 2, 0>>)
        /\ proc[q].pc = "done"
        /\ Len(proc[q].out) = 2
        /\ proc[q].out[1] = Summary(chatHistory)

Predictions == { p \in Procs : proc[p].op = "submitPredictionForm" }
NumericFields == {"age", "bmi", "glucose", "blood_pressure", "diabetes_pedigree",
                  "pregnancies", "skin_thickness", "insulin"}
\* the documented defaults, in tenths
Default == [age |-> 300, bmi |-> 250, glucose |-> 1000, blood_pressure |-> 1200,
            diabetes_pedigree |-> 5, pregnancies |-> 0, skin_thickness |-> 200,
            insulin |-> 800]
\* a field holds a number when its text is digits with at most one decimal
\* point among them
IsNumber(e) ==
    /\ e.present
    /\ e.text # <<>>
    /\ \A i \in 1..Len(e.text) : e.text[i] \in DOMAIN Digit \cup {"."}
    /\ Cardinality({ i \in 1..Len(e.text) : e.text[i] = "." }) <= 1
    /\ \E i \in 1..Len(e.text) : e.text[i] \in DOMAIN Digit
\* that number, in tenths
Entered(e) ==
    LET dot == IF \E i \in 1..Len(e.text) : e.text[i] = "."
               THEN CHOOSE i \in 1..Len(e.text) : e.text[i] = "." ELSE Len(e.text) + 1
        whole == SubSeq(e.text, 1, dot - 1)
        part == SubSeq(e.text, dot + 1, Len(e.text))
    IN  10 * ValueOf(whole) + (IF part = <<>> THEN 0 ELSE Digit[Head(part)])
Submitted(body, name) == body[CHOOSE k \in 1..Len(PredictionKeys) : PredictionKeys[k] = name]

\* C13: in every request to /predict, each numeric field carries the number
\* the user entered, and its documented default when the field is absent or
\* does not hold a number.
C13_DefaultOrEntered ==
    \A p \in Predictions :
        proc[p].req.path = "/predict" =>
            \A f \in NumericFields :
                Submitted(proc[p].req.body, f) =
                    IF IsNumber(proc[p].formData[f]) THEN Entered(proc[p].formData[f])
                    ELSE Default[f]

Failed(r) == r.rejected \/ r.status \notin 200..299
Ended(p) == proc[p].pc \in {"done", "gone"}
IsErrorToast(e) == e.type = "error"

\* a failed reply to an operation's own call ends the operation with an
\* error notification (after sendMessage, with the apology as well)
C14_Step ==
    \A p \in Procs :
        /\ \A r \in ChatReplies : (ChatResponse(p, r) /\ Failed(r)) =>
              /\ proc'[p].pc = "done"
              /\ Last(proc'[p].out) = [type |-> "bot", content |-> Apology]
              /\ \E i \in Len(proc[p].out) + 1..Len(proc'[p].out) : IsErrorToast(proc'[p].out[i])
        /\ \A r \in PredictReplies \cup UploadReplies \cup GenerateReplies :
              ((PredictResponse(p, r) \/ UploadResponse(p, r) \/ GenerateResponse(p, r))
                  /\ Failed(r)) =>
                  /\ proc'[p].pc = "done"
                  /\ IsErrorToast(Last(proc'[p].out))

\* C14: a failure of a backend call never leaves the session stuck: every
\* operation that waits on a request ends, a failed reply to its own call ends
\* it with an error notification or fallback entry, and once no operation is
\* waiting the send control is enabled and the loading overlay hidden, so
\* every user action can be started again.
C14_NeverStuck ==
    /\ \A p \in Procs : Running(p) ~> Ended(p)
    /\ []((\A p \in Procs : ~Running(p)) => (~sendDisabled /\ ~loading))
    /\ [][C14_Step]_vars

NoHistory == chatHistory = <<>> /\ lsHistory = NoItem
SuccessfulChat == \E p \in Procs : \E r \in ChatReplies : ChatResponse(p, r) /\ ChatSucceeds(r)

\* C15: startNewChat empties the chat history in memory and removes it from
\* durable storage, and leaves the identity in memory and in durable storage
\* as it was; the history then stays empty until the next successful chat
\* exchange, which leaves exactly one entry, in memory and in storage.
C15_ResetClearsHistory ==
    [][ /\ NewChatClick =>
              /\ chatHistory' = <<>> /\ lsHistory' = NoItem
              /\ currentUser' = currentUser /\ lsUser' = lsUser
        /\ NoHistory =>
              IF SuccessfulChat
              THEN Len(chatHistory') = 1 /\ lsHistory' = <<chatHistory'>>
              ELSE NoHistory' ]_vars

\* a full stored history was reset, and the send started after the reset has
\* ended with its exchange as the only entry
C15_Witness ==
    \E p, q \in Procs :
        /\ p < q
        /\ proc[p].op = "startNewChat" /\ proc[p].pc = "done"
        /\ q \in Sends /\ proc[q].pc = "done"
        /\ Len(chatHistory) = 1 /\ lsHistory = <<chatHistory>>
        /\ chatHistory[1].timestamp > HistoryCap
        /\ currentUser # NoUser /\ lsUser = <<currentUser>>

HistoryPath(k) ==
    CASE k = 1 -> "/history/predictions" [] k = 2 -> "/history/chats" [] OTHER -> "/history/reports"
IsHistoryPath(path) == \E k \in 1..3 : path = HistoryPath(k)
Unusable(r) == r.rejected \/ r.status \notin 200..299 \/ ~r.body.readable

C16_Step ==
    \A p \in Procs :
        \* a lookup is only ever sent as the first one, or as the one after
        \* the lookup just answered
        /\ (IsHistoryPath(proc'[p].req.path) /\ proc'[p].req # proc[p].req) =>
              /\ proc'[p].op = "generateReport"
              /\ IF proc[p].pc \in {"predictions", "chats"}
                 THEN proc'[p].req.path = HistoryPath(LookupOf(proc[p].pc) + 1)
                 ELSE proc[p].pc \in {"idle", "users"} /\ proc'[p].req.path = HistoryPath(1)
        \* whatever the reply, the next lookup or the rest of the operation
        \* follows, and no error notification is raised
        /\ \A r \in HistoryReplies :
              HistoryResponse(p, r) =>
                  LET k == LookupOf(proc[p].pc)
                  IN  /\ k < 3 =>
                            /\ proc'[p].pc = Lookups[k + 1]
                            /\ proc'[p].req = Request(HistoryPath(k + 1), currentUser.id, <<>>)
                            /\ proc'[p].out = proc[p].out
                            /\ Unusable(r) => proc'[p].ids = proc[p].ids /\ proc'[p].ids[k] = 0
                      /\ k = 3 =>
                            /\ \/ proc'[p].pc = "generate" /\ proc'[p].req.path = "/generate-report"
                               \/ proc'[p].pc = "done" /\ Last(proc'[p].out).type = "success"
                            /\ Unusable(r) /\ proc'[p].pc = "generate" =>
                                  proc'[p].ids = proc[p].ids /\ proc'[p].ids[k] = 0
                      /\ \A i \in 1..Len(proc'[p].out) : proc'[p].out[i].type # "error"

\* C16: generateReport makes its three history lookups once each, in the order
\* predictions, chats, reports; a rejected, non-success or unreadable reply to
\* one leaves its identifier absent, raises no notification, and is followed
\* by the next lookup or by the rest of the operation like any other reply.
C16_LookupsIndependent == [][C16_Step]_vars

\* the first two lookups gave nothing and the third an identifier: the request
\* for the report is out and nothing has been shown to the user
C16_Witness ==
    \E p \in Reports :
        /\ proc[p].pc = "generate"
        /\ proc[p].ids = <<0, 0, 2>>
        /\ proc[p].out = <<>>

IdentityPaths ==
    {"/chat", "/predict", "/analyze-report", "/generate-report"}
        \cup { HistoryPath(k) : k \in 1..3 }
UserEntry(p) == [type |-> "user", content |-> proc[p].message]

\* C17: a request to /chat, /predict, /analyze-report, /history/* or
\* /generate-report is only sent when the session has an identity, and carries
\* the id of the identity of that moment; a sendMessage that waits on identity
\* creation or on its chat request has already added the user's entry, as its
\* first output.
C17_IdentityBeforeRequest ==
    /\ [](\A p \in Sends : Running(p) => proc[p].out # <<>> /\ proc[p].out[1] = UserEntry(p))
    /\ [][ \A p \in Procs :
              (proc'[p].req # proc[p].req /\ proc'[p].req.path \in IdentityPaths) =>
                  /\ currentUser' # NoUser
                  /\ proc'[p].req.user_id = currentUser'.id ]_vars

\* a chat request is out with the id of an identity the backend created during
\* the send, after the user's entry
C17_Witness ==
    \E p \in Sends :
        /\ proc[p].pc = "chat"
        /\ proc[p].out[1] = UserEntry(p)
        /\ currentUser.id = 2
        /\ proc[p].req = Request("/chat", 2, proc[p].message)

\* C18: a successful reply to a send that was started before a startNewChat
\* adds nothing to the chat history, in memory or in durable storage.
C18_NoEntryFromBeforeReset ==
    [][ \A p \in Sends : \A r \in ChatReplies :
          (/\ ChatResponse(p, r)
           /\ \E q \in Procs : q > p /\ proc[q].op = "startNewChat") =>
              chatHistory' = chatHistory /\ lsHistory' = lsHistory ]_vars

Stored == IF lsHistory = NoItem THEN <<>> ELSE parse(lsHistory)

\* C19: the chat history in durable storage is the chat history in memory, an
\* absent key counting as the empty history; only a successful chat exchange
\* and startNewChat change either of them.
C19_StoredIsMemory ==
    /\ [](Stored = chatHistory)
    /\ [][ (~SuccessfulChat /\ ~NewChatClick) =>
              (chatHistory' = chatHistory /\ lsHistory' = lsHistory) ]_vars

\* a full history has taken one more exchange and dropped its oldest entry, in
\* memory and in storage alike
C19_Witness ==
    /\ Len(chatHistory) = HistoryCap
    /\ chatHistory[1].timestamp = 2
    /\ lsHistory = <<chatHistory>>

Precedence(data) ==
    CASE data.answer # <<>> -> data.answer
    []   data.answer = <<>> /\ data.response # <<>> -> data.response
    []   OTHER -> Unexpected

\* C20: on a successful /chat reply the assistant text is the answer field when
\* it has one, else the response field when it has one, else the generic
\* acknowledgment; that text is the assistant entry of the transcript and the
\* response of the history entry recorded with the query.
C20_AnswerPrecedence ==
    [][ \A p \in Sends : \A r \in ChatReplies :
          (ChatResponse(p, r) /\ ChatSucceeds(r)) =>
              LET text == Precedence(r.body)
              IN  /\ Last(proc'[p].out) = [type |-> "bot", content |-> text]
                  /\ Last(transcript') = [type |-> "bot", content |-> text]
                  /\ Last(chatHistory').response = text
                  /\ Last(chatHistory').query = proc[p].message
                  /\ lsHistory' = <<chatHistory'>> ]_vars

\* an exchange has ended with the response field as its text: the reply had no
\* answer
C20_Witness ==
    \E p \in Sends :
        /\ proc[p].pc = "done"
        /\ proc[p].out # <<>> /\ Last(proc[p].out) = [type |-> "bot", content |-> <<"R">>]
        /\ transcript # <<>> /\ Last(transcript) = [type |-> "bot", content |-> <<"R">>]
        /\ chatHistory # <<>> /\ Last(chatHistory).response = <<"R">>

\* ---------------------------------------------------------------- C21
Echoed(text) == \E i \in DOMAIN console : console[i] = text
\* the run found no model file and the real training did not come to its end
TrainingFailed ==
    /\ Echoed("Training initial model...")
    /\ ~Echoed("Model trained successfully with accuracy: ...")

\* C21: when the build script found no model file and the real training
\* failed, at whatever step, then once the script has reached its end there is
\* a model file at trained_models/diabetes_model.joblib.
C21_ArtifactAtEnd ==
    (step = "end" /\ TrainingFailed) => artifact # "none"

====
